---- MODULE Spec2Model ----
(***************************************************************************)
(* A model of init.py, the dotfiles bootstrap script: the filesystem       *)
(* helpers create_symlink and backup_file, the template rewriting of       *)
(* .zshrc, and the step sequence of main.                                  *)
(*                                                                         *)
(* The filesystem is a function from the real (symlink-free) paths of the  *)
(* existing entries to nodes.  A path is a sequence of names; the root     *)
(* <<>> is always a directory.  Every symbolic link holds an absolute      *)
(* path, as every path the script builds is absolute.                      *)
(***************************************************************************)
EXTENDS Integers, Sequences, FiniteSets, TLC

VARIABLES
  fs,      \* the filesystem
  pre,     \* the filesystem before the last helper call, or at the start of main
  call,    \* the last helper call: function, arguments, result
  ncalls,  \* helper calls made
  made,    \* the backups backup_file has made, in order
  pc,      \* main: the next step
  env,     \* main: os.environ
  cfg,     \* main: the configuration mapping
  idx,     \* main: the position in the list the current loop walks
  log,     \* main: the steps started so far, each with its outcome
  status   \* main: the exit status, -1 while running

helpvars == <<call, ncalls, made>>
mainvars == <<pc, env, cfg, idx, log, status>>
vars == <<fs, pre, call, ncalls, made, pc, env, cfg, idx, log, status>>

\* ----------------------------------------------------------------- bounds
\* calls of a helper in one run of the helper specifications
MaxCalls == 3
\* pieces of a template text in the rewriting specification
MaxText == 4
\* symbolic links followed in one path resolution before ELOOP
MaxFollow == 6

\* ------------------------------------------------------------ filesystem
FileNode(d) == [kind |-> "file", data |-> d, to |-> <<>>]
DirNode == [kind |-> "dir", data |-> <<>>, to |-> <<>>]
LinkNode(p) == [kind |-> "link", data |-> <<>>, to |-> p]

\* the filesystem holding exactly the <<path, node>> pairs of S
MkFs(S) == [p \in {e[1] : e \in S} |-> (CHOOSE e \in S : e[1] = p)[2]]

Put(f, p, n) == [q \in DOMAIN f \cup {p} |-> IF q = p THEN n ELSE f[q]]

Without(f, S) == [q \in DOMAIN f \ S |-> f[q]]

IsPrefix(a, b) == Len(a) <= Len(b) /\ SubSeq(b, 1, Len(a)) = a

\* the entries at and below p
Under(f, p) == {q \in DOMAIN f : IsPrefix(p, q)}

\* Path resolution as the kernel does it: from the real directory cur, walk
\* the names of rem; a link in the middle is always followed, the last name
\* only when follow is set.  The result names the real place of the entry
\* (which may hold nothing when only the last name is missing).
RECURSIVE Walk(_, _, _, _, _)
Walk(f, cur, rem, follow, fuel) ==
  IF rem = <<>> THEN [err |-> "", path |-> cur]
  ELSE LET cand == Append(cur, Head(rem))
           rest == Tail(rem)
       IN IF cand \notin DOMAIN f
            THEN IF rest = <<>> THEN [err |-> "", path |-> cand]
                 ELSE [err |-> "ENOENT", path |-> cand]
          ELSE IF f[cand].kind = "link" /\ (rest # <<>> \/ follow)
            THEN IF fuel = 0 THEN [err |-> "ELOOP", path |-> cand]
                 ELSE Walk(f, <<>>, f[cand].to \o rest, follow, fuel - 1)
          ELSE IF f[cand].kind = "dir" \/ rest = <<>>
            THEN Walk(f, cand, rest, follow, fuel)
          ELSE [err |-> "ENOTDIR", path |-> cand]

\* lstat: the place of p itself
Loc(f, p) == Walk(f, <<>>, p, FALSE, MaxFollow)
\* stat: the place p resolves to
Real(f, p) == Walk(f, <<>>, p, TRUE, MaxFollow)

OSErrorName(e) ==
  IF e = "ENOENT" THEN "FileNotFoundError"
  ELSE IF e = "ENOTDIR" THEN "NotADirectoryError"
  ELSE "OSError"

\* Path.exists(): follows links; a missing entry, a dangling link and a
\* link loop all answer False
exists(f, p) ==
  LET w == Real(f, p) IN w.err = "" /\ (w.path = <<>> \/ w.path \in DOMAIN f)

\* Path.is_symlink(): does not follow the last name
is_symlink(f, p) ==
  LET w == Loc(f, p) IN w.err = "" /\ w.path \in DOMAIN f /\ f[w.path].kind = "link"

\* is_dir taken for exists: any entry counts as a directory
is_dir_lax(f, p) ==
  LET w == Real(f, p) IN w.err = "" /\ (w.path = <<>> \/ w.path \in DOMAIN f)

\* Path.is_dir(): follows links
is_dir(f, p) ==
  LET w == Real(f, p)
  IN w.err = "" /\ (w.path = <<>> \/ (w.path \in DOMAIN f /\ f[w.path].kind = "dir"))

\* os.symlink(src, dst): fails when anything, a dangling link included, is at dst
os_symlink(f, src, dst) ==
  LET w == Loc(f, dst)
  IN IF w.err # "" THEN [fs |-> f, err |-> OSErrorName(w.err)]
     ELSE IF w.path \in DOMAIN f \/ w.path = <<>> THEN [fs |-> f, err |-> "FileExistsError"]
     ELSE [fs |-> Put(f, w.path, LinkNode(src)), err |-> ""]

\* Path.unlink(): removes the entry at p, never what a link at p points to
unlink(f, p) ==
  LET w == Loc(f, p)
  IN IF w.err # "" THEN [fs |-> f, err |-> OSErrorName(w.err)]
     ELSE IF w.path \notin DOMAIN f THEN [fs |-> f, err |-> "FileNotFoundError"]
     ELSE IF f[w.path].kind = "dir" THEN [fs |-> f, err |-> "IsADirectoryError"]
     ELSE [fs |-> Without(f, {w.path}), err |-> ""]

\* shutil.rmtree(p): refuses a link at p; removes the directory and all below
\* it, links inside are removed and not followed
rmtree(f, p) ==
  LET w == Loc(f, p)
  IN IF w.err # "" THEN [fs |-> f, err |-> OSErrorName(w.err)]
     ELSE IF w.path \notin DOMAIN f THEN [fs |-> f, err |-> "FileNotFoundError"]
     ELSE IF f[w.path].kind = "link" THEN [fs |-> f, err |-> "OSError"]
     ELSE IF f[w.path].kind = "file" THEN [fs |-> f, err |-> "NotADirectoryError"]
     ELSE [fs |-> Without(f, Under(f, w.path)), err |-> ""]

\* the entries below old moved below new
Moved(f, old, new) ==
  LET sub == Under(f, old)
      to(q) == new \o SubSeq(q, Len(old) + 1, Len(q))
      dst == {to(q) : q \in sub}
  IN [q \in (DOMAIN f \ sub) \cup dst |->
        IF q \in dst THEN f[CHOOSE o \in sub : to(o) = q] ELSE f[q]]

\* rename that moves the directory entry alone and loses what it held
rename_shallow(f, p, target) ==
  LET o == Loc(f, p)
      n == Loc(f, target)
  IN IF o.err # "" \/ n.err # "" \/ o.path \notin DOMAIN f \/ n.path \in DOMAIN f
          \/ IsPrefix(o.path, n.path)
       THEN [fs |-> f, err |-> "OSError"]
     ELSE [fs |-> Put(Without(f, Under(f, o.path)), n.path, f[o.path]), err |-> ""]

\* Path.rename(target) of a directory, rename(2): the new place may hold only
\* an empty directory, and may not lie inside the old one
rename(f, p, target) ==
  LET o == Loc(f, p)
      n == Loc(f, target)
  IN IF o.err # "" THEN [fs |-> f, err |-> OSErrorName(o.err)]
     ELSE IF n.err # "" THEN [fs |-> f, err |-> OSErrorName(n.err)]
     ELSE IF o.path \notin DOMAIN f THEN [fs |-> f, err |-> "FileNotFoundError"]
     ELSE IF o.path = n.path THEN [fs |-> f, err |-> ""]
     ELSE IF IsPrefix(o.path, n.path) THEN [fs |-> f, err |-> "OSError"]
     ELSE IF n.path \in DOMAIN f /\ f[n.path].kind # "dir"
       THEN [fs |-> f, err |-> "NotADirectoryError"]
     ELSE IF n.path \in DOMAIN f /\ Under(f, n.path) # {n.path}
       THEN [fs |-> f, err |-> "OSError"]
     ELSE [fs |-> Moved(f, o.path, n.path), err |-> ""]

\* shutil.copy(src, dst): reads the file src resolves to and writes it where
\* dst resolves to (through a link at dst, into a directory at dst)
shutil_copy(f, src, dst) ==
  LET s == Real(f, src)
      d == Real(f, dst)
      into == IF d.err = "" /\ d.path \in DOMAIN f /\ f[d.path].kind = "dir"
                THEN Real(f, d.path \o <<src[Len(src)]>>)
                ELSE d
  IN IF s.err # "" THEN [fs |-> f, err |-> OSErrorName(s.err)]
     ELSE IF s.path \notin DOMAIN f THEN [fs |-> f, err |-> "FileNotFoundError"]
     ELSE IF f[s.path].kind = "dir" THEN [fs |-> f, err |-> "IsADirectoryError"]
     ELSE IF into.err # "" THEN [fs |-> f, err |-> OSErrorName(into.err)]
     ELSE IF into.path = s.path THEN [fs |-> f, err |-> "SameFileError"]
     ELSE IF into.path \in DOMAIN f /\ f[into.path].kind = "dir"
       THEN [fs |-> f, err |-> "IsADirectoryError"]
     ELSE [fs |-> Put(f, into.path, FileNode(f[s.path].data)), err |-> ""]

\* Path.mkdir(parents=True, exist_ok=True): makes every missing directory of
\* the path; a name that is there and is no directory is an error
RECURSIVE mkdir_p(_, _, _)
mkdir_p(f, p, n) ==
  IF n > Len(p) THEN [fs |-> f, err |-> ""]
  ELSE LET q == SubSeq(p, 1, n)
           w == Loc(f, q)
       IN IF w.err # "" THEN [fs |-> f, err |-> OSErrorName(w.err)]
          ELSE IF w.path \notin DOMAIN f THEN mkdir_p(Put(f, w.path, DirNode), p, n + 1)
          ELSE IF is_dir(f, q) THEN mkdir_p(f, p, n + 1)
          ELSE [fs |-> f, err |-> IF n = Len(p) THEN "FileExistsError"
                                  ELSE "NotADirectoryError"]

\* str.replace with count=1: the first occurrence alone
RECURSIVE Replace_first(_, _, _)
Replace_first(text, old, new) ==
  IF Len(text) < Len(old) THEN text
  ELSE IF SubSeq(text, 1, Len(old)) = old
    THEN new \o SubSeq(text, Len(old) + 1, Len(text))
  ELSE <<Head(text)>> \o Replace_first(Tail(text), old, new)

\* str.replace(old, new): every occurrence, found left to right, the search
\* going on after each replaced one
RECURSIVE Replace(_, _, _)
Replace(text, old, new) ==
  IF Len(text) < Len(old) THEN text
  ELSE IF SubSeq(text, 1, Len(old)) = old
    THEN new \o Replace(SubSeq(text, Len(old) + 1, Len(text)), old, new)
  ELSE <<Head(text)>> \o Replace(Tail(text), old, new)

\* open("r+"); read; replace; seek(0); write; truncate: the file p resolves to
\* is rewritten in place
rewrite(f, p, old, new) ==
  LET w == Real(f, p)
  IN IF w.err # "" THEN [fs |-> f, err |-> OSErrorName(w.err)]
     ELSE IF w.path \notin DOMAIN f THEN [fs |-> f, err |-> "FileNotFoundError"]
     ELSE IF f[w.path].kind = "dir" THEN [fs |-> f, err |-> "IsADirectoryError"]
     ELSE [fs |-> Put(f, w.path, FileNode(Replace(f[w.path].data, old, new))),
           err |-> ""]

\* src.open("r"), dest.open("a"), dest.write(src.read()): the text of src is
\* added at the end of dest, which is created when missing
append_from(f, src, dest) ==
  LET s == Real(f, src)
      d == Real(f, dest)
  IN IF s.err # "" THEN [fs |-> f, err |-> OSErrorName(s.err)]
     ELSE IF s.path \notin DOMAIN f THEN [fs |-> f, err |-> "FileNotFoundError"]
     ELSE IF f[s.path].kind = "dir" THEN [fs |-> f, err |-> "IsADirectoryError"]
     ELSE IF d.err # "" THEN [fs |-> f, err |-> OSErrorName(d.err)]
     ELSE IF d.path \in DOMAIN f /\ f[d.path].kind = "dir"
       THEN [fs |-> f, err |-> "IsADirectoryError"]
     ELSE [fs |-> Put(f, d.path,
                      FileNode((IF d.path \in DOMAIN f THEN f[d.path].data ELSE <<>>)
                               \o f[s.path].data)),
           err |-> ""]

\* str(path)
RECURSIVE PathStr(_)
PathStr(p) == IF p = <<>> THEN "" ELSE "/" \o Head(p) \o PathStr(Tail(p))

\* ------------------------------------------------------------ backup_file
\* file_path.with_suffix(file_path.suffix + ".bak<counter>"): the name with
\* ".bak", and the counter when it is not 0, appended
BackupPath(p, counter) ==
  SubSeq(p, 1, Len(p) - 1)
  \o <<p[Len(p)] \o ".bak" \o (IF counter = 0 THEN "" ELSE ToString(counter))>>

\* a probe that stops at the first name whatever is there
Probe_first(f, p, counter) == counter

\* the while loop: the first counter whose backup path does not exist
RECURSIVE Probe(_, _, _)
Probe(f, p, counter) ==
  IF exists(f, BackupPath(p, counter)) THEN Probe(f, p, counter + 1) ELSE counter

backup_file(f, p) ==
  IF exists(f, p)
    THEN LET c == Probe(f, p, 0)
             r == shutil_copy(f, p, BackupPath(p, c))
         IN [fs |-> r.fs, err |-> r.err, counter |-> c]
    ELSE [fs |-> f, err |-> "", counter |-> -1]

\* --------------------------------------------------------- create_symlink
\* create_symlink that clears the target instead of the site
create_symlink_wrongtree(f, src, dest) ==
  IF ~exists(f, dest) THEN os_symlink(f, src, dest)
  ELSE IF is_symlink(f, dest)
    THEN LET u == unlink(f, dest)
         IN IF u.err # "" THEN u ELSE os_symlink(u.fs, src, dest)
  ELSE IF is_dir(f, dest)
    THEN IF ~exists(f, src)
           THEN LET r == rename(f, dest, src)
                IN IF r.err # "" THEN r ELSE os_symlink(r.fs, src, dest)
           ELSE LET r == rmtree(f, src)
                    d == rmtree(IF r.err = "" THEN r.fs ELSE f, dest)
                IN IF d.err # "" THEN d ELSE os_symlink(d.fs, src, dest)
  ELSE [fs |-> f, err |-> "ValueError"]

create_symlink(f, src, dest) ==
  IF ~exists(f, dest) THEN os_symlink(f, src, dest)
  ELSE IF is_symlink(f, dest)
    THEN LET u == unlink(f, dest)
         IN IF u.err # "" THEN u ELSE os_symlink(u.fs, src, dest)
  ELSE IF is_dir(f, dest)
    THEN IF ~exists(f, src)
           THEN LET r == rename(f, dest, src)
                IN IF r.err # "" THEN r ELSE os_symlink(r.fs, src, dest)
           ELSE LET r == rmtree(f, dest)
                IN IF r.err # "" THEN r ELSE os_symlink(r.fs, src, dest)
  ELSE [fs |-> f, err |-> "ValueError"]

\* ------------------------------------------- the create_symlink machine
S == <<"s">>
T == <<"t">>
O == <<"o">>

\* what may be at s, at t and at o before the first call
SChoices ==
  {{}, {<<S, FileNode(<<"a">>)>>}}
  \cup {{<<S, LinkNode(d)>>} : d \in {T, O, <<"zz">>, S}}
  \cup {{<<S, DirNode>>} \cup x \cup t :
          x \in {{}, {<<S \o <<"x">>, FileNode(<<"b">>)>>}},
          t \in {{}, {<<S \o T, DirNode>>}}}

TChoices ==
  {{}, {<<T, FileNode(<<"c">>)>>}}
  \cup {{<<T, LinkNode(d)>>} : d \in {S, O, <<"zz">>}}
  \cup {{<<T, DirNode>>} \cup x \cup s :
          x \in {{}, {<<T \o <<"x">>, FileNode(<<"d">>)>>}},
          s \in {{}, {<<T \o S, DirNode>>}, {<<T \o S, FileNode(<<"e">>)>>},
                 {<<T \o S, LinkNode(O)>>}}}

OChoices ==
  {{}, {<<O, FileNode(<<"f">>)>>}, {<<O, DirNode>>},
   {<<O, DirNode>>, <<O \o <<"x">>, FileNode(<<"g">>)>>}}

InitFsLink == {MkFs(a \cup b \cup c) : a \in SChoices, b \in TChoices, c \in OChoices}

\* the arguments the calls are made with: target and site side by side, the
\* target inside the site, the site inside the target
Targets == {T, S \o T}
Sites == {S, T \o S}

NoCall == [fn |-> "none", src |-> <<>>, dest |-> <<>>, res |-> ""]

\* main is not running
MainIdle ==
  /\ pc = "idle"
  /\ env = <<>>
  /\ cfg = <<>>
  /\ idx = 0
  /\ log = <<>>
  /\ status = -1

InitLink ==
  /\ fs \in InitFsLink
  /\ pre = fs
  /\ call = NoCall
  /\ ncalls = 0
  /\ made = <<>>
  /\ MainIdle

CreateSymlinkCall(src, dest) ==
  /\ ncalls < MaxCalls
  /\ LET r == create_symlink(fs, src, dest)
     IN /\ fs' = r.fs
        /\ call' = [fn |-> "create_symlink", src |-> src, dest |-> dest,
                    res |-> IF r.err = "" THEN "ok" ELSE r.err]
  /\ pre' = fs
  /\ ncalls' = ncalls + 1
  /\ UNCHANGED <<made, mainvars>>

NextLink == \E src \in Targets, dest \in Sites : CreateSymlinkCall(src, dest)

SpecLink == InitLink /\ [][NextLink]_vars

\* ------------------------------------------ create_symlink: the claims
Called == call.fn = "create_symlink"

\* what lstat finds at p
SiteKind(f, p) ==
  LET w == Loc(f, p)
  IN IF w.err # "" THEN "error"
     ELSE IF w.path \notin DOMAIN f THEN "absent"
     ELSE f[w.path].kind

\* the entry at p is a link holding the path q
LinksTo(f, p, q) == is_symlink(f, p) /\ f[Loc(f, p).path].to = q

\* the entries at and below the real place p, by their path relative to p
Rel(f, p) == {<<SubSeq(q, Len(p) + 1, Len(q)), f[q]>> : q \in Under(f, p)}

\* what the target holds: the entry p resolves to and everything below it
Content(f, p) == IF exists(f, p) THEN Rel(f, Real(f, p).path) ELSE {}

Nested(a, b) == IsPrefix(a, b) \/ IsPrefix(b, a)

\* target and site lie side by side: the parent directories of both exist,
\* and neither the target's own place nor the place it resolves to lies
\* inside the site or holds the site
Apart(f, src, dest) ==
  /\ Loc(f, src).err = ""
  /\ Loc(f, dest).err = ""
  /\ ~Nested(Loc(f, src).path, Loc(f, dest).path)
  /\ Real(f, src).err = "" => ~Nested(Real(f, src).path, Loc(f, dest).path)

\* C1: whatever was at the site (nothing, a symlink pointing anywhere, valid or
\* dangling, or a real directory) and whether or not the target exists, the
\* call completes without error and leaves the site a symlink to the target;
\* when the site was a symlink nothing but that link entry changes.
C1_AlwaysReconciles ==
  (/\ Called
   /\ SiteKind(pre, call.dest) \in {"absent", "link", "dir"}
   /\ Apart(pre, call.src, call.dest))
  => /\ call.res = "ok"
     /\ LinksTo(fs, call.dest, call.src)
     /\ SiteKind(pre, call.dest) = "link"
          => Without(fs, {Loc(pre, call.dest).path})
             = Without(pre, {Loc(pre, call.dest).path})

\* C2: a site that exists and is neither a symlink nor a directory makes the
\* call fail with ValueError and leaves the whole filesystem as it was.
C2_RegularFileRejected ==
  (Called /\ SiteKind(pre, call.dest) = "file")
  => (call.res = "ValueError" /\ fs = pre)

C2_Witness ==
  /\ Called
  /\ SiteKind(pre, call.dest) = "file"
  /\ exists(pre, call.src)
  /\ call.res = "ValueError"

\* C3: when a call succeeds, the same call made again right after it succeeds
\* too and changes nothing.
C3_Idempotent ==
  [][(/\ Called
      /\ call.res = "ok"
      /\ ncalls' = ncalls + 1
      /\ call'.src = call.src
      /\ call'.dest = call.dest)
     => (call'.res = "ok" /\ fs' = fs)]_vars

\* C4: a real directory at the site and nothing at the target (whose parent
\* directory exists, outside the site): the call succeeds, the target is a
\* real directory holding exactly what the site held, the site is a symlink
\* to the target, and everything else is untouched, so the content is in
\* one place only.
C4_Rescue ==
  (/\ Called
   /\ SiteKind(pre, call.dest) = "dir"
   /\ SiteKind(pre, call.src) = "absent"
   /\ ~IsPrefix(Loc(pre, call.dest).path, Loc(pre, call.src).path))
  => LET site == Loc(pre, call.dest).path
         target == Loc(pre, call.src).path
     IN /\ call.res = "ok"
        /\ SiteKind(fs, call.src) = "dir"
        /\ Rel(fs, target) = Rel(pre, site)
        /\ LinksTo(fs, call.dest, call.src)
        /\ Under(fs, site) = {site}
        /\ Without(fs, Under(fs, target) \cup {site})
           = Without(pre, Under(pre, site))

C4_Witness ==
  /\ Called
  /\ call.src = T
  /\ call.dest = S
  /\ SiteKind(pre, S) = "dir"
  /\ S \o <<"x">> \in DOMAIN pre
  /\ SiteKind(pre, T) = "absent"
  /\ call.res = "ok"
  /\ T \o <<"x">> \in DOMAIN fs
  /\ S \o <<"x">> \notin DOMAIN fs

\* C5 as stated: a real directory at the site and a target that exists, at any
\* path other than the site: the call succeeds, the site becomes a symlink to
\* the target and the target holds exactly what it held before.
C5_DiscardAnyPath ==
  (/\ Called
   /\ SiteKind(pre, call.dest) = "dir"
   /\ exists(pre, call.src)
   /\ call.src # call.dest)
  => /\ call.res = "ok"
     /\ LinksTo(fs, call.dest, call.src)
     /\ Content(fs, call.src) = Content(pre, call.src)

\* C5 amended: the same, for a target whose place, and the place it resolves
\* to, lie neither inside the site nor around it.
C5_DiscardApart ==
  (/\ Called
   /\ SiteKind(pre, call.dest) = "dir"
   /\ exists(pre, call.src)
   /\ Apart(pre, call.src, call.dest))
  => /\ call.res = "ok"
     /\ LinksTo(fs, call.dest, call.src)
     /\ Content(fs, call.src) = Content(pre, call.src)
     /\ Without(fs, {Loc(pre, call.dest).path})
        = Without(pre, Under(pre, Loc(pre, call.dest).path))

C5_Witness ==
  /\ Called
  /\ call.src = T
  /\ call.dest = S
  /\ SiteKind(pre, S) = "dir"
  /\ S \o <<"x">> \in DOMAIN pre
  /\ SiteKind(pre, T) = "dir"
  /\ T \o <<"x">> \in DOMAIN pre
  /\ call.res = "ok"
  /\ T \o <<"x">> \in DOMAIN fs
  /\ S \o <<"x">> \notin DOMAIN fs

\* ---------------------------------------------- the backup_file machine
H == <<"h">>
F == H \o <<"f">>
G == H \o <<"g">>

\* the directory h before the first call: the file f (a file, a directory, a
\* link to g, or nothing), g, and what already sits at the first backup names
FChoices ==
  {{}, {<<F, FileNode(<<"a">>)>>}, {<<F, DirNode>>}, {<<F, LinkNode(G)>>}}

GChoices == {{}, {<<G, FileNode(<<"b">>)>>}}

BakChoices ==
  {{}, {<<BackupPath(F, 0), FileNode(<<"old">>)>>}, {<<BackupPath(F, 0), DirNode>>},
   {<<BackupPath(F, 0), LinkNode(H \o <<"z">>)>>}}

Bak1Choices == {{}, {<<BackupPath(F, 1), FileNode(<<"old1">>)>>}}

InitFsBackup ==
  {MkFs({<<H, DirNode>>} \cup a \cup b \cup c \cup d) :
     a \in FChoices, b \in GChoices, c \in BakChoices, d \in Bak1Choices}

InitBackup ==
  /\ fs \in InitFsBackup
  /\ pre = fs
  /\ call = NoCall
  /\ ncalls = 0
  /\ made = <<>>
  /\ MainIdle

BackupFileCall(p) ==
  /\ ncalls < MaxCalls
  /\ LET r == backup_file(fs, p)
         bp == IF r.counter < 0 THEN <<>> ELSE BackupPath(p, r.counter)
     IN /\ fs' = r.fs
        /\ call' = [fn |-> "backup_file", src |-> p, dest |-> bp,
                    res |-> IF r.err = "" THEN "ok" ELSE r.err]
        /\ made' = IF r.counter >= 0 /\ r.err = ""
                     THEN Append(made, [path |-> p, counter |-> r.counter,
                                        data |-> fs[Real(fs, p).path].data])
                     ELSE made
  /\ pre' = fs
  /\ ncalls' = ncalls + 1
  /\ UNCHANGED mainvars

NextBackup == \E p \in {F, G} : BackupFileCall(p)

SpecBackup == InitBackup /\ [][NextBackup]_vars

\* ------------------------------------------------- backup_file: the claim
BackedUp == call.fn = "backup_file"

\* p resolves to a regular file holding d
HoldsFile(f, p, d) ==
  exists(f, p) /\ f[Real(f, p).path].kind = "file" /\ f[Real(f, p).path].data = d

\* C6: backup_file never changes or removes an entry that was there; on a path
\* that resolves to a file it adds one entry, the copy, under the first name of
\* .bak, .bak1, .bak2, ... that did not exist; the backups made of one path
\* carry strictly increasing suffixes and all of them still hold what was
\* copied; on a path that does not exist it changes nothing and raises nothing.
C6_BackupNeverOverwrites ==
  /\ BackedUp =>
       /\ \A q \in DOMAIN pre : q \in DOMAIN fs /\ fs[q] = pre[q]
       /\ ~exists(pre, call.src) => (fs = pre /\ call.res = "ok")
       /\ (exists(pre, call.src) /\ ~is_dir(pre, call.src)) =>
            LET c == made[Len(made)].counter
            IN /\ call.res = "ok"
               /\ made[Len(made)].path = call.src
               /\ call.dest = BackupPath(call.src, c)
               /\ \A j \in 0..(c - 1) : exists(pre, BackupPath(call.src, j))
               /\ ~exists(pre, call.dest)
               /\ Cardinality(DOMAIN fs) = Cardinality(DOMAIN pre) + 1
               /\ HoldsFile(fs, call.dest, pre[Real(pre, call.src).path].data)
  /\ \A i, j \in 1..Len(made) :
       (i < j /\ made[i].path = made[j].path) => made[i].counter < made[j].counter
  /\ \A i \in 1..Len(made) :
       HoldsFile(fs, BackupPath(made[i].path, made[i].counter), made[i].data)

\* two backups of h/f, the second one placed after a backup that was already
\* there
C6_Witness ==
  /\ BackedUp
  /\ Len(made) = 2
  /\ made[1].path = F
  /\ made[2].path = F
  /\ made[1].counter = 0
  /\ made[2].counter = 2
  /\ BackupPath(F, 2) = H \o <<"f.bak2">>
  /\ BackupPath(F, 2) \in DOMAIN fs

\* ------------------------------------------------------------------ main
\* the paths main builds
home_dir == H
workspace_directory == <<"w">>
zshrc_file == home_dir \o <<".zshrc">>
oh_my_zsh_dir == home_dir \o <<".oh-my-zsh">>
zsh_installation_path == workspace_directory \o <<".oh-my-zsh">>
xdg_cache_home == workspace_directory \o <<".cache">>
zsh_custom == zsh_installation_path \o <<"custom">>
pixi_home == workspace_directory \o <<".pixi_home">>
pixi_symlink == home_dir \o <<".pixi">>
pixi_bin == home_dir \o <<".pixi", "bin">>
\* the files the configuration names
custom_zshrc == <<"d", "zshrc">>
AddConfig1 == <<"d", "a1">>
AddConfig2 == <<"d", "a2">>

\* the placeholders of the template and what replaces them; a text is a
\* sequence of pieces, each placeholder two pieces long
ZshToken == <<"export ZSH=", "\"${ZSH_INSTALLATION_PATH}\"">>
ZshValue == <<"export ZSH=", "\"" \o PathStr(zsh_installation_path) \o "\"">>
CacheToken == <<"export XDG_CACHE_HOME=", "\"\"">>
CacheValue == <<"export XDG_CACHE_HOME=", "\"" \o PathStr(xdg_cache_home) \o "\"">>
PixiToken == <<"export PATH=", "${PIXI_BIN}:$PATH">>
PixiValue == <<"export PATH=", PathStr(pixi_bin) \o ":$PATH">>

\* names of environment variables, letter by letter, for startswith
ZSH == <<"Z", "S", "H">>
PIXI == <<"P", "I", "X", "I">>
PATH == <<"P", "A", "T", "H">>

\* nothing is removed from the environment
RemoveEnv_none(e, prefix) == e

\* the environment without the variables whose name starts with prefix
RemoveEnv(e, prefix) == [n \in {m \in DOMAIN e : ~IsPrefix(prefix, m)} |-> e[n]]

\* config.get(key) or False: the default is lost
Get_nodefault(c, key, default) == IF key \in DOMAIN c THEN c[key] ELSE FALSE

\* config.get(key, default)
Get(c, key, default) == IF key \in DOMAIN c THEN c[key] ELSE default

\* one step of main is over: with an error the run ends, status 1
Finish(step, err, next) ==
  /\ log' = Append(log, [step |-> step, err |-> err])
  /\ pc' = IF err = "" THEN next ELSE "aborted"
  /\ status' = IF err = "" THEN status ELSE 1

\* subprocess.run(check=True) of a command that returned rc
RunError(rc) == IF rc = 0 THEN "" ELSE "CalledProcessError"

\* initialize_oh_my_zsh: the ZSH* variables are removed
OmzEnv ==
  /\ pc = "omz_env"
  /\ env' = RemoveEnv(env, ZSH)
  /\ Finish("omz_env", "", "omz_backup")
  /\ UNCHANGED <<fs, pre, helpvars, cfg, idx>>

\* .zshrc is backed up unless the configuration says not to
OmzBackup ==
  /\ pc = "omz_backup"
  /\ LET r == IF Get(cfg, "backup_zshrc", TRUE)
                THEN backup_file(fs, zshrc_file)
                ELSE [fs |-> fs, err |-> "", counter |-> -1]
     IN /\ fs' = r.fs
        /\ made' = IF r.counter >= 0 /\ r.err = ""
                     THEN Append(made, [path |-> zshrc_file, counter |-> r.counter,
                                        data |-> fs[Real(fs, zshrc_file).path].data])
                     ELSE made
        /\ Finish("omz_backup", r.err, "omz_clean")
  /\ UNCHANGED <<pre, call, ncalls, env, cfg, idx>>

\* ~/.oh-my-zsh and the installation path are cleared, ZSH is set
OmzClean ==
  /\ pc = "omz_clean"
  /\ LET f1 == IF is_symlink(fs, oh_my_zsh_dir) THEN unlink(fs, oh_my_zsh_dir).fs ELSE fs
         r2 == IF exists(f1, oh_my_zsh_dir) THEN rmtree(f1, oh_my_zsh_dir)
               ELSE [fs |-> f1, err |-> ""]
         r3 == IF r2.err # "" THEN r2
               ELSE IF exists(r2.fs, zsh_installation_path)
                 THEN rmtree(r2.fs, Real(r2.fs, zsh_installation_path).path)
               ELSE r2
     IN /\ fs' = r3.fs
        /\ env' = IF r3.err = ""
                    THEN [n \in DOMAIN env \cup {ZSH} |->
                            IF n = ZSH THEN PathStr(zsh_installation_path) ELSE env[n]]
                    ELSE env
        /\ Finish("omz_clean", r3.err, "omz_install")
  /\ UNCHANGED <<pre, helpvars, cfg, idx>>

\* the oh-my-zsh installer runs and returns rc
OmzInstall ==
  /\ pc = "omz_install"
  /\ \E rc \in {0, 1} : Finish("omz_install", RunError(rc), "omz_link")
  /\ UNCHANGED <<fs, pre, helpvars, env, cfg, idx>>

\* ~/.oh-my-zsh is linked to the installation path
OmzLink ==
  /\ pc = "omz_link"
  /\ LET r == os_symlink(fs, zsh_installation_path, oh_my_zsh_dir)
     IN fs' = r.fs /\ Finish("omz_link", r.err, "omz_copy")
  /\ UNCHANGED <<pre, helpvars, env, cfg, idx>>

\* the template is copied over .zshrc, or the run ends when it is missing
OmzCopy ==
  /\ pc = "omz_copy"
  /\ LET r == IF ~exists(fs, cfg["custom_zshrc"])
                THEN [fs |-> fs, err |-> "FileNotFoundError"]
                ELSE shutil_copy(fs, cfg["custom_zshrc"], zshrc_file)
     IN fs' = r.fs /\ Finish("omz_copy", r.err, "omz_rewrite_zsh")
  /\ UNCHANGED <<pre, helpvars, env, cfg, idx>>

\* the installation path placeholder of .zshrc is rewritten
OmzRewriteZsh ==
  /\ pc = "omz_rewrite_zsh"
  /\ LET r == rewrite(fs, zshrc_file, ZshToken, ZshValue)
     IN fs' = r.fs /\ Finish("omz_rewrite_zsh", r.err, "omz_rewrite_cache")
  /\ UNCHANGED <<pre, helpvars, env, cfg, idx>>

\* the cache directory is made and its placeholder rewritten
OmzRewriteCache ==
  /\ pc = "omz_rewrite_cache"
  /\ LET m == mkdir_p(fs, xdg_cache_home, 1)
         r == IF m.err # "" THEN m ELSE rewrite(m.fs, zshrc_file, CacheToken, CacheValue)
     IN fs' = r.fs /\ Finish("omz_rewrite_cache", r.err, "omz_plugins")
  /\ idx' = 1
  /\ UNCHANGED <<pre, helpvars, env, cfg>>

\* the plugin loop: a plugin whose directory is missing is cloned
OmzPlugin ==
  /\ pc = "omz_plugins"
  /\ IF idx > Len(cfg["zsh_plugins"])
       THEN /\ pc' = "pixi_env"
            /\ idx' = 1
            /\ UNCHANGED <<log, status>>
       ELSE /\ idx' = idx + 1
            /\ IF ~exists(fs, zsh_custom \o <<"plugins", cfg["zsh_plugins"][idx].name>>)
                 THEN \E rc \in {0, 1} : Finish("git_clone", RunError(rc), "omz_plugins")
                 ELSE UNCHANGED <<pc, log, status>>
  /\ UNCHANGED <<fs, pre, helpvars, env, cfg>>

\* initialize_pixi: the PIXI* variables are removed
PixiEnv ==
  /\ pc = "pixi_env"
  /\ env' = RemoveEnv(env, PIXI)
  /\ Finish("pixi_env", "", "pixi_link")
  /\ UNCHANGED <<fs, pre, helpvars, cfg, idx>>

\* ~/.pixi is cleared and linked to the pixi home in the workspace
PixiLink ==
  /\ pc = "pixi_link"
  /\ LET r1 == IF is_symlink(fs, pixi_symlink) THEN unlink(fs, pixi_symlink)
               ELSE IF exists(fs, pixi_symlink) THEN rmtree(fs, pixi_symlink)
               ELSE [fs |-> fs, err |-> ""]
         r2 == IF r1.err # "" THEN r1 ELSE mkdir_p(r1.fs, pixi_home, 1)
         r3 == IF r2.err # "" THEN r2 ELSE os_symlink(r2.fs, pixi_home, pixi_symlink)
     IN fs' = r3.fs /\ Finish("pixi_link", r3.err, "pixi_install")
  /\ UNCHANGED <<pre, helpvars, env, cfg, idx>>

\* the pixi installer runs and returns rc
PixiInstall ==
  /\ pc = "pixi_install"
  /\ \E rc \in {0, 1} : Finish("pixi_install", RunError(rc), "pixi_rewrite")
  /\ UNCHANGED <<fs, pre, helpvars, env, cfg, idx>>

\* the search path placeholder of .zshrc is rewritten and PATH extended
PixiRewrite ==
  /\ pc = "pixi_rewrite"
  /\ LET r == rewrite(fs, zshrc_file, PixiToken, PixiValue)
         err == IF r.err # "" THEN r.err
                ELSE IF PATH \notin DOMAIN env THEN "KeyError" ELSE ""
     IN /\ fs' = r.fs
        /\ env' = IF err = ""
                    THEN [env EXCEPT ![PATH] = PathStr(pixi_bin) \o ":" \o env[PATH]]
                    ELSE env
        /\ Finish("pixi_rewrite", err, "pixi_packages")
  /\ idx' = 1
  /\ UNCHANGED <<pre, helpvars, cfg>>

\* the package loop: pixi global install, then pixi global update
PixiPackage ==
  /\ pc = "pixi_packages"
  /\ IF idx > Len(Get(cfg, "pixi_packages", <<>>))
       THEN /\ pc' = "just"
            /\ idx' = 1
            /\ UNCHANGED <<log, status>>
       ELSE /\ idx' = idx + 1
            /\ \E rc1 \in {0, 1}, rc2 \in {0, 1} :
                 IF rc1 # 0
                   THEN Finish("pixi_global_install", RunError(rc1), "pixi_packages")
                   ELSE /\ log' = log \o <<[step |-> "pixi_global_install", err |-> ""],
                                           [step |-> "pixi_global_update",
                                            err |-> RunError(rc2)]>>
                        /\ pc' = IF rc2 = 0 THEN "pixi_packages" ELSE "aborted"
                        /\ status' = IF rc2 = 0 THEN status ELSE 1
  /\ UNCHANGED <<fs, pre, helpvars, env, cfg>>

\* main: the completions of just are written when just is installed
Just ==
  /\ pc = "just"
  /\ \E found \in BOOLEAN, rc \in {0, 1} :
       IF found THEN Finish("just", RunError(rc), "additional_configs")
       ELSE /\ rc = 0
            /\ pc' = "additional_configs"
            /\ UNCHANGED <<log, status>>
  /\ idx' = 1
  /\ UNCHANGED <<fs, pre, helpvars, env, cfg>>

\* the loop over additional_configs reporting a missing file and going on
AdditionalConfig_goes_on ==
  /\ pc = "additional_configs"
  /\ IF idx > Len(Get(cfg, "additional_configs", <<>>))
       THEN /\ pc' = "done"
            /\ status' = 0
            /\ UNCHANGED <<fs, idx, log>>
       ELSE LET a == cfg["additional_configs"][idx]
                r == IF ~exists(fs, a) THEN [fs |-> fs, err |-> ""]
                     ELSE append_from(fs, a, zshrc_file)
            IN /\ fs' = r.fs
               /\ idx' = idx + 1
               /\ Finish("append_config", r.err, "additional_configs")
  /\ UNCHANGED <<pre, helpvars, env, cfg>>

\* the loop over additional_configs: a missing file ends the run with
\* sys.exit(1), an existing one is appended to .zshrc
AdditionalConfig ==
  /\ pc = "additional_configs"
  /\ IF idx > Len(Get(cfg, "additional_configs", <<>>))
       THEN /\ pc' = "done"
            /\ status' = 0
            /\ UNCHANGED <<fs, idx, log>>
       ELSE LET a == cfg["additional_configs"][idx]
            IN IF ~exists(fs, a)
                 THEN /\ pc' = "exited"
                      /\ status' = 1
                      /\ log' = Append(log, [step |-> "missing_config", err |-> "SystemExit"])
                      /\ UNCHANGED <<fs, idx>>
                 ELSE LET r == append_from(fs, a, zshrc_file)
                      IN /\ fs' = r.fs
                         /\ idx' = idx + 1
                         /\ Finish("append_config", r.err, "additional_configs")
  /\ UNCHANGED <<pre, helpvars, env, cfg>>

NextMain ==
  \/ OmzEnv \/ OmzBackup \/ OmzClean \/ OmzInstall \/ OmzLink \/ OmzCopy
  \/ OmzRewriteZsh \/ OmzRewriteCache \/ OmzPlugin
  \/ PixiEnv \/ PixiLink \/ PixiInstall \/ PixiRewrite \/ PixiPackage
  \/ Just \/ AdditionalConfig

\* the text of the template and of the other files
TemplateText ==
  <<"# zshrc">> \o ZshToken \o CacheToken \o PixiToken \o <<"source $ZSH/oh-my-zsh.sh">>

\* the home directory before the run
ZshrcChoices ==
  {{}, {<<zshrc_file, FileNode(<<"my zshrc">>)>>}, {<<zshrc_file, DirNode>>},
   {<<zshrc_file, LinkNode(<<"d", "dot">>)>>}}

ZshrcBakChoices == {{}, {<<BackupPath(zshrc_file, 0), FileNode(<<"older zshrc">>)>>}}

OmzHomeChoices ==
  {{}, {<<oh_my_zsh_dir, DirNode>>, <<oh_my_zsh_dir \o <<"x">>, FileNode(<<"x">>)>>},
   {<<oh_my_zsh_dir, LinkNode(<<"zz">>)>>}, {<<oh_my_zsh_dir, FileNode(<<"y">>)>>}}

WorkspaceChoices ==
  {{}, {<<workspace_directory, DirNode>>},
   {<<workspace_directory, DirNode>>, <<zsh_installation_path, DirNode>>,
    <<zsh_installation_path \o <<"x">>, FileNode(<<"x">>)>>}}

PixiChoices ==
  {{}, {<<pixi_symlink, LinkNode(pixi_home)>>}, {<<pixi_symlink, DirNode>>}}

\* the directory of the configuration: the template and the additional files
TemplateChoices == {{}, {<<custom_zshrc, FileNode(TemplateText)>>}}

AddConfigChoices ==
  {{<<AddConfig1, FileNode(<<"# a1">>)>>, <<AddConfig2, FileNode(<<"# a2">>)>>},
   {<<AddConfig2, FileNode(<<"# a2">>)>>},
   {<<AddConfig1, FileNode(<<"# a1">>)>>}}

InitFsMain ==
  {MkFs({<<H, DirNode>>, <<<<"d">>, DirNode>>, <<<<"d", "dot">>, FileNode(<<"dot zshrc">>)>>}
        \cup a \cup b \cup c \cup d \cup e \cup g \cup h) :
     a \in ZshrcChoices, b \in ZshrcBakChoices, c \in OmzHomeChoices,
     d \in WorkspaceChoices, e \in PixiChoices, g \in TemplateChoices,
     h \in AddConfigChoices}

\* the configuration mapping, with and without the key backup_zshrc
BaseConfig ==
  {<<"custom_zshrc", custom_zshrc>>,
   <<"zsh_plugins", <<[name |-> "zsh-autosuggestions", repo |-> "r1"],
                      [name |-> "zsh-syntax-highlighting", repo |-> "r2"]>> >>,
   <<"pixi_packages", <<"just">> >>,
   <<"additional_configs", <<AddConfig1, AddConfig2>> >>}

Configs ==
  {MkFs(BaseConfig \cup b) :
     b \in {{}, {<<"backup_zshrc", TRUE>>}, {<<"backup_zshrc", FALSE>>}}}

\* os.environ before the run: stale ZSH* and PIXI* variables among others
InitEnv ==
  MkFs({<<ZSH, "/old/.oh-my-zsh">>, <<ZSH \o <<"_", "C">>, "/old/custom">>,
        <<<<"Z", "S">>, "zs">>, <<PIXI \o <<"_", "H">>, "/old/.pixi">>,
        <<PATH, "/usr/bin">>})

\* main has parsed its arguments and loaded the configuration
InitMain ==
  /\ fs \in InitFsMain
  /\ pre = fs
  /\ call = NoCall
  /\ ncalls = 0
  /\ made = <<>>
  /\ pc = "omz_env"
  /\ env = InitEnv
  /\ cfg \in Configs
  /\ idx = 1
  /\ log = <<>>
  /\ status = -1

SpecMain == InitMain /\ [][NextMain]_vars

\* ------------------------------------------------------ main: the claims
Steps == {log[i].step : i \in 1..Len(log)}

\* every step b of the log comes after a step a that ended without error
Before(a, b) ==
  \A j \in 1..Len(log) :
    log[j].step = b => \E i \in 1..(j - 1) : log[i].step = a /\ log[i].err = ""

Occurs(t, old, i) ==
  i >= 1 /\ i + Len(old) - 1 <= Len(t) /\ SubSeq(t, i, i + Len(old) - 1) = old

\* the text of the file p resolves to
TextOf(f, p) == f[Real(f, p).path].data

\* C7: for oh-my-zsh and then for pixi, the stale variables are gone when the
\* installer is invoked, the installer has ended well before the placeholder
\* of the tool is rewritten, .zshrc and PATH carry the pixi directory before a
\* pixi global install runs, and nothing runs after a step that failed.
C7_FixedOrder ==
  /\ Before("omz_env", "omz_install")
  /\ Before("omz_install", "omz_rewrite_zsh")
  /\ Before("omz_install", "omz_rewrite_cache")
  /\ Before("omz_rewrite_cache", "pixi_env")
  /\ Before("pixi_env", "pixi_install")
  /\ Before("pixi_install", "pixi_rewrite")
  /\ Before("pixi_rewrite", "pixi_global_install")
  /\ \A i \in 1..(Len(log) - 1) : log[i].err = ""
  /\ status = 1 => (log # <<>> /\ log[Len(log)].err # "" /\ ~ENABLED NextMain)
  /\ pc = "omz_install" =>
       \A n \in DOMAIN env :
         IsPrefix(ZSH, n) => (n = ZSH /\ env[n] = PathStr(zsh_installation_path))
  /\ pc = "pixi_install" => \A n \in DOMAIN env : ~IsPrefix(PIXI, n)
  /\ "pixi_global_install" \in Steps =>
       /\ env[PATH] = PathStr(pixi_bin) \o ":" \o InitEnv[PATH]
       /\ \A i \in 1..Len(TextOf(fs, zshrc_file)) :
            ~Occurs(TextOf(fs, zshrc_file), PixiToken, i)
       /\ \E i \in 1..Len(TextOf(fs, zshrc_file)) :
            Occurs(TextOf(fs, zshrc_file), PixiValue, i)

C7_Witness ==
  /\ pc = "done"
  /\ status = 0
  /\ "pixi_global_install" \in Steps
  /\ "git_clone" \in Steps
  /\ DOMAIN env = {ZSH, PATH, <<"Z", "S">>}

\* what .zshrc is: the node it resolves to, or nothing
ZshrcState(f) ==
  IF exists(f, zshrc_file) THEN <<f[Real(f, zshrc_file).path]>> ELSE <<>>

\* the texts of the first n additional configuration files, one after another
RECURSIVE ConfigTexts(_, _)
ConfigTexts(f, n) ==
  IF n = 0 THEN <<>>
  ELSE ConfigTexts(f, n - 1) \o TextOf(f, cfg["additional_configs"][n])

\* C9: a missing template ends the run with status 1 at the copy step, with
\* .zshrc as it was and no plugin cloned; a missing additional configuration
\* file ends it with status 1 there, the loop never gets past it, and .zshrc
\* ends with the files before it and nothing of the files after it.
C9_MissingFileAborts ==
  /\ (~exists(pre, custom_zshrc) /\ "omz_copy" \in Steps) =>
       /\ pc = "aborted"
       /\ status = 1
       /\ log[Len(log)] = [step |-> "omz_copy", err |-> "FileNotFoundError"]
       /\ "git_clone" \notin Steps
       /\ ZshrcState(fs) = ZshrcState(pre)
  /\ \A j \in 1..Len(cfg["additional_configs"]) :
       (~exists(pre, cfg["additional_configs"][j])
        /\ pc \in {"additional_configs", "done", "exited"})
       => (idx <= j /\ pc # "done" /\ status # 0)
  /\ pc = "exited" =>
       /\ status = 1
       /\ ~exists(pre, cfg["additional_configs"][idx])
       /\ TextOf(fs, zshrc_file)
          = Replace(Replace(Replace(TextOf(pre, custom_zshrc), ZshToken, ZshValue),
                            CacheToken, CacheValue), PixiToken, PixiValue)
            \o ConfigTexts(pre, idx - 1)

\* the second additional file is missing: the first one alone was appended
C9_Witness ==
  /\ pc = "exited"
  /\ status = 1
  /\ idx = 2
  /\ exists(pre, AddConfig1)
  /\ ~exists(pre, AddConfig2)
  /\ TextOf(fs, zshrc_file)[Len(TextOf(fs, zshrc_file))] = "# a1"

\* the first names of .zshrc.bak, .zshrc.bak1, ...: where a backup of .zshrc
\* would be put
ZshrcBackups == {BackupPath(zshrc_file, k) : k \in 0..MaxCalls}

\* C10: with backup_zshrc true or absent and .zshrc existing at the start,
\* once the installer has been invoked or .zshrc overwritten there is a new
\* backup file holding what .zshrc held at the start; with backup_zshrc false
\* no backup file is ever made.
C10_BackupBeforeOverwrite ==
  /\ (/\ ("backup_zshrc" \in DOMAIN cfg => cfg["backup_zshrc"])
      /\ exists(pre, zshrc_file)
      /\ {"omz_install", "omz_copy"} \cap Steps # {})
     => /\ Len(made) = 1
        /\ ~exists(pre, BackupPath(zshrc_file, made[1].counter))
        /\ HoldsFile(fs, BackupPath(zshrc_file, made[1].counter),
                     TextOf(pre, zshrc_file))
  /\ ("backup_zshrc" \in DOMAIN cfg /\ ~cfg["backup_zshrc"])
     => /\ made = <<>>
        /\ \A q \in ZshrcBackups :
             (q \in DOMAIN fs <=> q \in DOMAIN pre) /\ (q \in DOMAIN fs => fs[q] = pre[q])

\* .zshrc has been overwritten by the template, the key backup_zshrc is absent,
\* and the old text sits in .zshrc.bak1
C10_Witness ==
  /\ "backup_zshrc" \notin DOMAIN cfg
  /\ "omz_rewrite_zsh" \in Steps
  /\ HoldsFile(pre, zshrc_file, <<"my zshrc">>)
  /\ ~HoldsFile(fs, zshrc_file, <<"my zshrc">>)
  /\ HoldsFile(pre, BackupPath(zshrc_file, 0), <<"older zshrc">>)
  /\ HoldsFile(fs, BackupPath(zshrc_file, 0), <<"older zshrc">>)
  /\ HoldsFile(fs, BackupPath(zshrc_file, 1), <<"my zshrc">>)

\* ------------------------------------------ the rewriting of the template
\* the pieces a template is made of: those of the two placeholders and one
\* of other text
Pieces == {ZshToken[1], ZshToken[2], CacheToken[1], CacheToken[2], "# other"}

Texts == UNION {[1..n -> Pieces] : n \in 0..MaxText}

\* the run up to the copy of the template, for any text of the template:
\* nothing but the home directory and the configuration files at the start,
\* every step so far done without error
StartFs(t) ==
  MkFs({<<H, DirNode>>, <<<<"d">>, DirNode>>, <<custom_zshrc, FileNode(t)>>,
        <<AddConfig1, FileNode(<<"# a1">>)>>, <<AddConfig2, FileNode(<<"# a2">>)>>})

InitRewrite ==
  \E t \in Texts :
    /\ pre = StartFs(t)
    /\ fs = Put(Put(StartFs(t), oh_my_zsh_dir, LinkNode(zsh_installation_path)),
                zshrc_file, FileNode(t))
    /\ call = NoCall
    /\ ncalls = 0
    /\ made = <<>>
    /\ pc = "omz_rewrite_zsh"
    /\ env = MkFs({<<ZSH, PathStr(zsh_installation_path)>>, <<<<"Z", "S">>, "zs">>,
                   <<PIXI \o <<"_", "H">>, "/old/.pixi">>, <<PATH, "/usr/bin">>})
    /\ cfg = MkFs(BaseConfig)
    /\ idx = 1
    /\ log = [i \in 1..6 |->
                [step |-> <<"omz_env", "omz_backup", "omz_clean", "omz_install",
                            "omz_link", "omz_copy">>[i],
                 err |-> ""]]
    /\ status = -1

NextRewrite == OmzRewriteZsh \/ OmzRewriteCache

SpecRewrite == InitRewrite /\ [][NextRewrite]_vars

\* the place of the first occurrence of old in t, 0 when there is none
FirstOcc(t, old) ==
  IF \E i \in 1..Len(t) : Occurs(t, old, i)
    THEN CHOOSE i \in 1..Len(t) :
           Occurs(t, old, i) /\ \A j \in 1..(i - 1) : ~Occurs(t, old, j)
    ELSE 0

\* t with the second piece of the first occurrence of each placeholder
\* replaced by the path
FirstReplaced(t) ==
  [i \in 1..Len(t) |->
     IF i > 1 /\ FirstOcc(t, ZshToken) = i - 1 THEN ZshValue[2]
     ELSE IF i > 1 /\ FirstOcc(t, CacheToken) = i - 1 THEN CacheValue[2]
     ELSE t[i]]

\* t with the second piece of every occurrence of each placeholder replaced
\* by the path
AllReplaced(t) ==
  [i \in 1..Len(t) |->
     IF Occurs(t, ZshToken, i - 1) THEN ZshValue[2]
     ELSE IF Occurs(t, CacheToken, i - 1) THEN CacheValue[2]
     ELSE t[i]]

\* C8 as stated: after the two rewrites .zshrc is the template with the first
\* occurrence of each placeholder replaced by its path, every later
\* occurrence and all other text unchanged.
C8_FirstMatchOnly ==
  pc = "omz_plugins" =>
    TextOf(fs, zshrc_file) = FirstReplaced(TextOf(pre, custom_zshrc))

\* C8 amended: after the two rewrites .zshrc is the template with every
\* occurrence of each placeholder replaced by its path and all other text
\* unchanged, so a template without placeholders is written back as it was.
C8_EveryOccurrence ==
  pc = "omz_plugins" =>
    /\ TextOf(fs, zshrc_file) = AllReplaced(TextOf(pre, custom_zshrc))
    /\ \A i \in 1..Len(TextOf(fs, zshrc_file)) :
         /\ ~Occurs(TextOf(fs, zshrc_file), ZshToken, i)
         /\ ~Occurs(TextOf(fs, zshrc_file), CacheToken, i)
    /\ (\A i \in 1..Len(TextOf(pre, custom_zshrc)) :
          /\ ~Occurs(TextOf(pre, custom_zshrc), ZshToken, i)
          /\ ~Occurs(TextOf(pre, custom_zshrc), CacheToken, i))
       => TextOf(fs, zshrc_file) = TextOf(pre, custom_zshrc)

\* a template holding the installation path placeholder twice: both are
\* replaced
C8_Witness ==
  /\ pc = "omz_plugins"
  /\ TextOf(pre, custom_zshrc) = ZshToken \o ZshToken
  /\ TextOf(fs, zshrc_file) = ZshValue \o ZshValue

====
